---- MODULE Spec2Model ----
(***************************************************************************)
(* Model of the developer-leaderboard backend: the most complete server    *)
(* variant (src/unnamed/part_000 lines 251-656) and, where it differs,     *)
(* the server of src/server.js.                                            *)
(*                                                                         *)
(* The state is the Firestore "users" collection, the GitHub upstream the  *)
(* handlers query, and the request handlers in flight.  A handler runs on  *)
(* the Node event loop: the code between two awaits is one atomic step,    *)
(* and every await (a store call, an HTTP call, a timer) is a point where  *)
(* other handlers may run.  Each action below is one such step.            *)
(*                                                                         *)
(* Values: a timestamp is the arrival number of the request that read the  *)
(* clock (0 for a reading before start-up), so that a stamp tells which    *)
(* request wrote it; access tokens and provider ids are small integers (0  *)
(* stands for null / no token).                                            *)
(* The `if (!db)` checks are not modelled: the process exits at start-up   *)
(* when the store cannot be initialised (lines 269-289), so db is set in   *)
(* every state in which a handler runs.                                    *)
(***************************************************************************)
EXTENDS Integers, Sequences, FiniteSets, TLC

\* ------------------------------------------------------------------ bounds

\* Request slots: each slot carries at most one request in a behaviour.
MaxReqs == 3
\* Requests in flight at once under Spec.
MaxActive == 2
\* Requests sent under SpecScan.
MaxScanReqs == 1
\* Access tokens the identity provider hands out: 1..MaxTokens.
MaxTokens == 1
\* perPage (lines 366, 409) is 100 in the source; the model scales it down.
PerPage == 2
\* Requests sent under SpecServers.
MaxApiReqs == 2
\* Most PushEvents the public events feed of a user holds.
MaxPushes == 1
\* Inputs of the scorers under SpecScore: 0..MaxScoreRepos repositories and
\* 0..MaxScoreCommits commits.
MaxScoreRepos == 8
MaxScoreCommits == 12

Reqs == 1..MaxReqs
Users == {"u1", "u2"}
Tokens == 1..MaxTokens
\* profile.displayName as the provider sends it ("" when it sends none).
DisplayNames == {"", "Dev"}
\* The server files: the comprehensive variant and src/server.js.
Comprehensive == "part_000"
ServerJs == "server.js"
\* Most commits one repository holds upstream: two pages.
MaxCommits == PerPage + 1

\* ------------------------------------------------------------------ state

VARIABLES
  store,        \* Firestore collection "users": document id -> fields
  github,       \* the upstream: repositories per user, commits per repository
  req,          \* per request slot: the handler's locals and its response
  clients,      \* the load: requests sent in all, and in flight at once;
                \* and the server file that is deployed
  store0,       \* history: the store as it was at start-up
  timers,       \* the recurring timers (setInterval) armed in the process
  calc          \* SpecScore: a scorer's inputs and the scores computed

vars == <<store, github, req, clients, store0, timers, calc>>

Null == [null |-> TRUE]

\* --------------------------------------------------------------- Firestore

\* doc.exists
Exists(s, u) == u \in DOMAIN s

\* data.f || 0
OrZero(data, f) == IF f \in DOMAIN data THEN data[f] ELSE 0

Put(s, u, data) == [v \in DOMAIN s \cup {u} |-> IF v = u THEN data ELSE s[v]]

\* userRef.set(data): the document becomes exactly data.
SetDoc(s, u, data) == Put(s, u, data)

SetMergeOverwrites(s, u, data) == Put(s, u, data)

\* userRef.set(data, {merge: true}): the fields of data are written, the
\* document's other fields are kept; the document is created when absent.
SetMerge(s, u, data) ==
  IF Exists(s, u)
    THEN Put(s, u, [f \in DOMAIN s[u] \cup DOMAIN data |->
                      IF f \in DOMAIN data THEN data[f] ELSE s[u][f]])
    ELSE Put(s, u, data)

\* userRef.update(data): as a merge, on a document that exists (Firestore
\* rejects an update of a missing document).
UpdateDoc(s, u, data) == SetMerge(s, u, data)

\* ------------------------------------------------------------------ login

ProviderId(u) == IF u = "u1" THEN 101 ELSE 102

\* userData of the verify callback (lines 309-320)
UserData(u, dn, tok, t) ==
  [id |-> ProviderId(u), username |-> u,
   displayName |-> IF dn # "" THEN dn ELSE u,
   avatar_url |-> "avatar", accessToken |-> tok, lastLogin |-> t,
   points |-> 0, repoCount |-> 0, commitCount |-> 0, dailyCheckIns |-> 0]

\* --------------------------------------------------------------- check-in

CheckinPayloadNoCounter(data, t) ==
  [points |-> OrZero(data, "points") + 1, lastCheckIn |-> t]

\* the object handed to userRef.update (lines 550-556)
CheckinPayload(data, t) ==
  [points |-> OrZero(data, "points") + 1,
   dailyCheckIns |-> OrZero(data, "dailyCheckIns") + 1,
   lastCheckIn |-> t]

\* ------------------------------------------------------------------- scan

FullScoreAsQuick(repoCount, commitCount) == repoCount * 5 + commitCount * 2

\* points of the full scan (line 508)
FullScore(repoCount, commitCount) == repoCount * 10 + commitCount * 3

ScanPayloadWithUsername(repoCount, totalCommits, t) ==
  [username |-> "u1", repoCount |-> repoCount, commitCount |-> totalCommits,
   points |-> FullScore(repoCount, totalCommits),
   lastUpdated |-> t, lastFullScan |-> t]

\* the object handed to userRef.set (lines 514-520)
ScanPayload(repoCount, totalCommits, t) ==
  [repoCount |-> repoCount, commitCount |-> totalCommits,
   points |-> FullScore(repoCount, totalCommits),
   lastUpdated |-> t, lastFullScan |-> t]

\* ------------------------------------------------------------ the requests

IdleReq ==
  [kind |-> "none", pc |-> "idle", user |-> "", token |-> 0,
   displayName |-> "", exists |-> FALSE, payload |-> Null,
   allRepos |-> <<>>, page |-> 0, idx |-> 0, allCommits |-> 0,
   totalCommits |-> 0, processedRepos |-> 0,
   status |-> 0, body |-> Null,
   overlap |-> FALSE, faulted |-> {}]

\* new Date().toISOString() as read by request r
Stamp(r) == r

Active(q) == q.pc \notin {"idle", "done"}

NumActive == Cardinality({x \in Reqs : Active(req[x])})

\* A request arrives in slot r; q is the handler's state at its first await.
\* Slots are taken in order of arrival.  History: overlap records that
\* another request was in flight at some time during this one.
Begin(r, q) ==
  /\ req[r].pc = "idle"
  /\ \A x \in Reqs : x < r => req[x].pc # "idle"
  /\ r <= clients.total
  /\ NumActive < clients.inflight
  /\ req' = [x \in Reqs |->
               IF x = r THEN [q EXCEPT !.overlap = (NumActive > 0)]
               ELSE IF Active(req[x]) THEN [req[x] EXCEPT !.overlap = TRUE]
               ELSE req[x]]

\* res.status(status).json(body): the handler is over and its locals are gone.
Respond(q, status, body) ==
  [IdleReq EXCEPT !.kind = q.kind, !.user = q.user, !.pc = "done",
                  !.status = status, !.body = body, !.overlap = q.overlap]

\* ---- GitHub OAuth verify callback (lines 300-333)

LoginStart(r, u, dn, tok) ==
  /\ Begin(r, [IdleReq EXCEPT !.kind = "login", !.pc = "loginGet",
                              !.user = u, !.displayName = dn, !.token = tok])
  /\ UNCHANGED <<store, github, clients, store0, timers, calc>>

\* userDoc = await userRef.get(); userData is built; userRef.set is called.
LoginGet(r, ok) ==
  LET q == req[r] IN
  /\ q.pc = "loginGet"
  /\ req' = [req EXCEPT ![r] =
       IF ok
         THEN [q EXCEPT !.pc = "loginSet",
                        !.exists = Exists(store, q.user),
                        !.payload = UserData(q.user, q.displayName, q.token, Stamp(r))]
         ELSE Respond(q, 500, [error |-> "Firestore error"])]
  /\ UNCHANGED <<store, github, clients, store0, timers, calc>>

\* the write of userRef.set(userData[, {merge: true}]) and done(null, userData):
\* the callback route redirects to the frontend with ?username=
LoginSet(r, ok) ==
  LET q == req[r] IN
  /\ q.pc = "loginSet"
  /\ IF ok
       THEN /\ store' = IF ~q.exists
                          THEN SetDoc(store, q.user, q.payload)
                          ELSE SetMerge(store, q.user, q.payload)
            /\ req' = [req EXCEPT ![r] = Respond(q, 302, [username |-> q.user])]
       ELSE /\ store' = store
            /\ req' = [req EXCEPT ![r] = Respond(q, 500, [error |-> "Firestore error"])]
  /\ UNCHANGED <<github, clients, store0, timers, calc>>

\* ---- POST /api/checkin/:username (lines 538-576)

CheckinStart(r, u) ==
  /\ Begin(r, [IdleReq EXCEPT !.kind = "checkin", !.pc = "checkinGet", !.user = u])
  /\ UNCHANGED <<store, github, clients, store0, timers, calc>>

CheckinMissingCreates(q) ==
  [q EXCEPT !.pc = "checkinUpdate", !.payload = CheckinPayload(Null, 0)]

\* the 404 of lines 563-568
CheckinMissing(q) ==
  Respond(q, 404, [success |-> FALSE, error |-> "User not found"])

\* userDoc = await userRef.get(); then the 404, or userRef.update is called
\* with values computed from the document just read.
CheckinGet(r, ok) ==
  LET q == req[r] IN
  /\ q.pc = "checkinGet"
  /\ req' = [req EXCEPT ![r] =
       IF ~ok
         THEN Respond(q, 500, [success |-> FALSE, error |-> "Firestore error"])
       ELSE IF Exists(store, q.user)
         THEN [q EXCEPT !.pc = "checkinUpdate",
                        !.exists = TRUE,
                        !.payload = CheckinPayload(store[q.user], Stamp(r))]
         ELSE CheckinMissing(q)]
  /\ UNCHANGED <<store, github, clients, store0, timers, calc>>

CheckinBodyStale(q) ==
  [success |-> TRUE, message |-> "Daily check-in successful! +1 point",
   newPoints |-> q.payload.points - 1]

\* the 200 body (lines 558-562): newPoints is the value handed to update
CheckinBody(q) ==
  [success |-> TRUE, message |-> "Daily check-in successful! +1 point",
   newPoints |-> q.payload.points]

\* the write of userRef.update and the 200 response
CheckinUpdate(r, ok) ==
  LET q == req[r] IN
  /\ q.pc = "checkinUpdate"
  /\ IF ok /\ Exists(store, q.user)
       THEN /\ store' = UpdateDoc(store, q.user, q.payload)
            /\ req' = [req EXCEPT ![r] = Respond(q, 200, CheckinBody(q))]
       ELSE /\ store' = store
            /\ req' = [req EXCEPT ![r] =
                 Respond(q, 500, [success |-> FALSE, error |-> "Firestore error"])]
  /\ UNCHANGED <<github, clients, store0, timers, calc>>

\* ---- the GitHub upstream

Min(a, b) == IF a < b THEN a ELSE b

\* The repositories GitHub lists for a user, in its order (sort=updated):
\* u1 owns repositories 1..g.repos, u2 owns none.
ReposOf(g, u) == IF u = "u1" THEN [i \in 1..g.repos |-> i] ELSE <<>>

\* The commits the user authored in repository i.
CommitsOf(g, i) == (i + g.offset) % (MaxCommits + 1)

\* response.data of GET ...?per_page=perPage&page=page over a listing
PageOf(listing, page) ==
  SubSeq(listing, (page - 1) * PerPage + 1, Min(page * PerPage, Len(listing)))

\* response.headers.link carries rel="next": more items follow this page
HasNext(n, page) == page * PerPage < n

\* the number of items on a page of a listing of n items
PageSize(n, page) ==
  IF n > (page - 1) * PerPage THEN Min(PerPage, n - (page - 1) * PerPage) ELSE 0

\* error.response.status of a failed commit listing (0: no response at all)
FaultStatuses == {409, 403, 404, 500, 0}

\* ---- GET /api/points/:username, the full scan (lines 454-535)

ScanStart(r, u) ==
  /\ clients.server = Comprehensive
  /\ Begin(r, [IdleReq EXCEPT !.kind = "scan", !.pc = "scanGet", !.user = u])
  /\ UNCHANGED <<store, github, clients, store0, timers, calc>>

\* accessToken of lines 465-469
StoredToken(s, u) ==
  IF Exists(s, u) /\ OrZero(s[u], "accessToken") # 0 THEN s[u].accessToken ELSE 0

\* userDoc = await userRef.get(); getAllRepositories is entered and requests
\* its first page.
ScanGet(r, ok) ==
  LET q == req[r] IN
  /\ q.pc = "scanGet"
  /\ req' = [req EXCEPT ![r] =
       IF ok
         THEN [q EXCEPT !.pc = "reposFetch", !.token = StoredToken(store, q.user),
                        !.allRepos = <<>>, !.page = 1]
         ELSE Respond(q, 500, [error |-> "Firestore error"])]
  /\ UNCHANGED <<store, github, clients, store0, timers, calc>>

\* after the for loop (lines 507-522): the points are computed and
\* userRef.set is called
ScanDone(q, t) ==
  [q EXCEPT !.pc = "scanSet",
            !.payload = ScanPayload(Len(q.allRepos), q.totalCommits, t)]

\* the head of the for loop (line 484): the next repository's
\* getCommitsForRepository is entered and requests its first page (the field
\* page now holds that function's own page), or the loop is over
LoopHead(q, t) ==
  IF q.idx > Len(q.allRepos)
    THEN ScanDone(q, t)
    ELSE [q EXCEPT !.pc = "commitsFetch", !.allCommits = 0, !.page = 1]

\* getAllRepositories returns allRepos (line 398); lines 475-484
ReposReturn(q, allRepos, t) ==
  LoopHead([q EXCEPT !.allRepos = allRepos, !.totalCommits = 0,
                     !.processedRepos = 0, !.idx = 1], t)

ReposFailedWritesPartial(q) ==
  [q EXCEPT !.pc = "scanSet", !.payload = ScanPayload(Len(q.allRepos), 0, 0)]

\* a page request fails: getAllRepositories logs and rethrows (lines
\* 399-402), the handler's catch answers 500 (lines 531-534)
ReposFailed(q) == Respond(q, 500, [error |-> "Request failed"])

ReposKeepFirstPage(q, data) == IF q.page = 1 THEN q.allRepos \o data ELSE q.allRepos

\* allRepos = allRepos.concat(response.data) (line 384)
ReposConcat(q, data) == q.allRepos \o data

ReposResponseNoWait(r, ok) ==
  LET q == req[r]
      listing == ReposOf(github, q.user)
      data == PageOf(listing, q.page)
  IN
  /\ q.pc = "reposFetch"
  /\ req' = [req EXCEPT ![r] =
       IF ~ok THEN ReposFailed(q)
       ELSE IF Len(data) = 0 THEN ReposReturn(q, q.allRepos, Stamp(r))
       ELSE IF ~HasNext(Len(listing), q.page)
         THEN ReposReturn(q, ReposConcat(q, data), Stamp(r))
       ELSE [q EXCEPT !.allRepos = ReposConcat(q, data), !.page = q.page + 1]]
  /\ UNCHANGED <<store, github, clients, store0, timers, calc>>

ReposResponseIgnoresLink(r, ok) ==
  LET q == req[r]
      data == PageOf(ReposOf(github, q.user), q.page)
  IN
  /\ q.pc = "reposFetch"
  /\ req' = [req EXCEPT ![r] =
       IF ~ok THEN ReposFailed(q)
       ELSE IF Len(data) = 0 THEN ReposReturn(q, q.allRepos, Stamp(r))
       ELSE [q EXCEPT !.allRepos = ReposConcat(q, data),
                      !.page = q.page + 1, !.pc = "reposDelay"]]
  /\ UNCHANGED <<store, github, clients, store0, timers, calc>>

\* a page of the repository listing arrives, or the request fails
\* (lines 375-398)
ReposResponse(r, ok) ==
  LET q == req[r]
      listing == ReposOf(github, q.user)
      data == PageOf(listing, q.page)
  IN
  /\ q.pc = "reposFetch"
  /\ req' = [req EXCEPT ![r] =
       IF ~ok THEN ReposFailed(q)
       ELSE IF Len(data) = 0 THEN ReposReturn(q, q.allRepos, Stamp(r))
       ELSE IF ~HasNext(Len(listing), q.page)
         THEN ReposReturn(q, ReposConcat(q, data), Stamp(r))
       ELSE [q EXCEPT !.allRepos = ReposConcat(q, data),
                      !.page = q.page + 1, !.pc = "reposDelay"]]
  /\ UNCHANGED <<store, github, clients, store0, timers, calc>>

\* the 100 ms timer of line 395 fires; the next page is requested
ReposDelay(r) ==
  /\ req[r].pc = "reposDelay"
  /\ req' = [req EXCEPT ![r].pc = "reposFetch"]
  /\ UNCHANGED <<store, github, clients, store0, timers, calc>>

\* getCommitsForRepository returns count (lines 441, 446, 449); lines
\* 493-499: the total grows and the 200 ms timer is set
CommitsReturn(q, count, fault) ==
  [q EXCEPT !.totalCommits = q.totalCommits + count,
            !.processedRepos = q.processedRepos + 1,
            !.faulted = IF fault THEN q.faulted \cup {q.allRepos[q.idx]}
                        ELSE q.faulted,
            !.pc = "repoDelay"]

CommitsCaughtPartial(q, status) == q.allCommits

\* the catch of getCommitsForRepository (lines 442-450)
CommitsCaught(q, status) == 0

CommitsResponseDropsLast(r, status) ==
  LET q == req[r]
      n == CommitsOf(github, q.allRepos[q.idx])
      got == PageSize(n, q.page)
  IN
  /\ q.pc = "commitsFetch"
  /\ req' = [req EXCEPT ![r] =
       IF status # 200 THEN CommitsReturn(q, CommitsCaught(q, status), TRUE)
       ELSE IF got = 0 \/ ~HasNext(n, q.page)
         THEN CommitsReturn(q, q.allCommits, FALSE)
       ELSE [q EXCEPT !.allCommits = q.allCommits + got,
                      !.page = q.page + 1, !.pc = "commitsDelay"]]
  /\ UNCHANGED <<store, github, clients, store0, timers, calc>>

\* a page of a repository's commit listing arrives, or the request fails
\* with status (lines 418-450)
CommitsResponse(r, status) ==
  LET q == req[r]
      n == CommitsOf(github, q.allRepos[q.idx])
      got == PageSize(n, q.page)
  IN
  /\ q.pc = "commitsFetch"
  /\ req' = [req EXCEPT ![r] =
       IF status # 200 THEN CommitsReturn(q, CommitsCaught(q, status), TRUE)
       ELSE IF got = 0 THEN CommitsReturn(q, q.allCommits, FALSE)
       ELSE IF ~HasNext(n, q.page)
         THEN CommitsReturn(q, q.allCommits + got, FALSE)
       ELSE [q EXCEPT !.allCommits = q.allCommits + got,
                      !.page = q.page + 1, !.pc = "commitsDelay"]]
  /\ UNCHANGED <<store, github, clients, store0, timers, calc>>

CommitsDelaySamePage(r) ==
  /\ req[r].pc = "commitsDelay"
  /\ req' = [req EXCEPT ![r].pc = "commitsFetch", ![r].page = req[r].page - 1]
  /\ UNCHANGED <<store, github, clients, store0, timers, calc>>

\* the 100 ms timer of line 438 fires; the next page is requested
CommitsDelay(r) ==
  /\ req[r].pc = "commitsDelay"
  /\ req' = [req EXCEPT ![r].pc = "commitsFetch"]
  /\ UNCHANGED <<store, github, clients, store0, timers, calc>>

RepoDelayWritesTotal(r) ==
  LET q == req[r] IN
  /\ q.pc = "repoDelay"
  /\ req' = [req EXCEPT ![r] = LoopHead([q EXCEPT !.idx = q.idx + 1], Stamp(r))]
  /\ store' = SetMerge(store, q.user, [commitCount |-> q.totalCommits])
  /\ UNCHANGED <<github, clients, store0, timers, calc>>

RepoDelaySkipsOne(r) ==
  LET q == req[r] IN
  /\ q.pc = "repoDelay"
  /\ req' = [req EXCEPT ![r] = LoopHead([q EXCEPT !.idx = q.idx + 2], Stamp(r))]
  /\ UNCHANGED <<store, github, clients, store0, timers, calc>>

\* the 200 ms timer of line 499 fires; the loop goes on
RepoDelay(r) ==
  LET q == req[r] IN
  /\ q.pc = "repoDelay"
  /\ req' = [req EXCEPT ![r] = LoopHead([q EXCEPT !.idx = q.idx + 1], Stamp(r))]
  /\ UNCHANGED <<store, github, clients, store0, timers, calc>>

\* the 200 body (lines 524-530)
ScanBody(q) ==
  [username |-> q.user, repoCount |-> q.payload.repoCount,
   commitCount |-> q.payload.commitCount, points |-> q.payload.points,
   message |-> "Comprehensive scan completed"]

\* the write of userRef.set(..., {merge: true}) and the 200 response
ScanSet(r, ok) ==
  LET q == req[r] IN
  /\ q.pc = "scanSet"
  /\ IF ok
       THEN /\ store' = SetMerge(store, q.user, q.payload)
            /\ req' = [req EXCEPT ![r] = Respond(q, 200, ScanBody(q))]
       ELSE /\ store' = store
            /\ req' = [req EXCEPT ![r] = Respond(q, 500, [error |-> "Firestore error"])]
  /\ UNCHANGED <<github, clients, store0, timers, calc>>

\* ---- GET /api/leaderboard (lines 579-611; src/server.js lines 160-187)

\* The documents a query ordered by "points" returns: those that have the
\* field.
WithPoints(s) == {u \in DOMAIN s : "points" \in DOMAIN s[u]}

SnapshotsAscending(s) ==
  {o \in [1..Cardinality(WithPoints(s)) -> WithPoints(s)] :
     /\ \A i, j \in DOMAIN o : i # j => o[i] # o[j]
     /\ \A i, j \in DOMAIN o : i < j => s[o[i]].points <= s[o[j]].points}

SnapshotsFirstOnly(s) ==
  {o \in [1..Min(1, Cardinality(WithPoints(s))) -> WithPoints(s)] :
     \A u \in WithPoints(s) : s[o[1]].points >= s[u].points}

\* snapshot.docs of collection("users").orderBy("points", "desc").get()
\* (lines 585-587), as document ids: every document with a points field,
\* once, by descending points; the store settles the order of equal points.
Snapshots(s) ==
  {o \in [1..Cardinality(WithPoints(s)) -> WithPoints(s)] :
     /\ \A i, j \in DOMAIN o : i # j => o[i] # o[j]
     /\ \A i, j \in DOMAIN o : i < j => s[o[i]].points >= s[o[j]].points}

\* a value that || takes: neither undefined nor ""
Truthy(data, f) == f \in DOMAIN data /\ data[f] # ""

\* the fields data is read for as they are (lines 592-602); src/server.js
\* does not read lastFullScan
CopiedFields(server) ==
  {"username", "avatar_url", "lastLogin", "lastUpdated"}
    \cup (IF server = Comprehensive THEN {"lastFullScan"} ELSE {})

LeaderboardEntryWithToken(server, u, data) ==
  [f \in {"id"} \cup (DOMAIN data \ {"id"}) |-> IF f = "id" THEN u ELSE data[f]]

\* one element of the response (lines 589-604) as res.json sends it: a
\* property whose value is undefined is left out
LeaderboardEntry(server, u, data) ==
  LET named == Truthy(data, "displayName") \/ "username" \in DOMAIN data
      fields == {"id", "points", "repoCount", "commitCount", "dailyCheckIns"}
                  \cup (CopiedFields(server) \cap DOMAIN data)
                  \cup (IF named THEN {"displayName"} ELSE {})
  IN [f \in fields |->
        IF f = "id" THEN u
        ELSE IF f = "displayName"
          THEN (IF Truthy(data, "displayName") THEN data.displayName
                ELSE data.username)
        ELSE IF f \in {"points", "repoCount", "commitCount", "dailyCheckIns"}
          THEN OrZero(data, f)
        ELSE data[f]]

\* the array of the response over a snapshot
Leaderboard(server, s, order) ==
  [i \in DOMAIN order |-> LeaderboardEntry(server, order[i], s[order[i]])]

LeaderboardStart(r) ==
  /\ Begin(r, [IdleReq EXCEPT !.kind = "board", !.pc = "boardGet"])
  /\ UNCHANGED <<store, github, clients, store0, timers, calc>>

\* the query answers with a snapshot, or fails; the response
LeaderboardGet(r, ok) ==
  LET q == req[r] IN
  /\ q.pc = "boardGet"
  /\ \E order \in Snapshots(store) :
       req' = [req EXCEPT ![r] =
         IF ok THEN Respond(q, 200, Leaderboard(clients.server, store, order))
         ELSE Respond(q, 500, [error |-> "Firestore error"])]
  /\ UNCHANGED <<store, github, clients, store0, timers, calc>>

\* ---- GET /api/quick-scan/:username (lines 614-650)

QuickStart(r, u) ==
  /\ clients.server = Comprehensive
  /\ Begin(r, [IdleReq EXCEPT !.kind = "quick", !.pc = "quickRepos", !.user = u])
  /\ UNCHANGED <<store, github, clients, store0, timers, calc>>

\* reposResponse arrives (lines 619-620): one page of the listing, which
\* the handler takes for all of it; the events feed is requested
QuickRepos(r, ok) ==
  LET q == req[r] IN
  /\ q.pc = "quickRepos"
  /\ req' = [req EXCEPT ![r] =
       IF ok THEN [q EXCEPT !.pc = "quickEvents",
                            !.allRepos = PageOf(ReposOf(github, q.user), 1)]
       ELSE Respond(q, 500, [error |-> "Request failed"])]
  /\ UNCHANGED <<store, github, clients, store0, timers, calc>>

QuickScoreSwapped(repoCount, commitCount) == (repoCount * 2) + (commitCount * 5)

\* points of the quick scan (line 637)
QuickScore(repoCount, commitCount) == (repoCount * 5) + (commitCount * 2)

\* the 200 body (lines 639-645)
QuickBody(q, commitCount) ==
  [username |-> q.user, repoCount |-> Len(q.allRepos),
   commitCount |-> commitCount,
   points |-> QuickScore(Len(q.allRepos), commitCount),
   message |-> "Quick scan completed (public data only)"]

QuickEventsPersists(r, ok, pushes) ==
  LET q == req[r] IN
  /\ q.pc = "quickEvents"
  /\ timers' = IF ok THEN timers + 1 ELSE timers
  /\ store' = SetMerge(store, q.user,
                       [points |-> QuickScore(Len(q.allRepos), pushes)])
  /\ req' = [req EXCEPT ![r] =
       IF ok THEN Respond(q, 200, QuickBody(q, pushes))
       ELSE Respond(q, 500, [error |-> "Request failed"])]
  /\ UNCHANGED <<github, clients, store0, calc>>

\* eventsResponse arrives with pushes PushEvents (lines 623-624); the
\* handler arms a recurring timer (setInterval, lines 630-634) and answers
QuickEvents(r, ok, pushes) ==
  LET q == req[r] IN
  /\ q.pc = "quickEvents"
  /\ timers' = IF ok THEN timers + 1 ELSE timers
  /\ req' = [req EXCEPT ![r] =
       IF ok THEN Respond(q, 200, QuickBody(q, pushes))
       ELSE Respond(q, 500, [error |-> "Request failed"])]
  /\ UNCHANGED <<store, github, clients, store0, calc>>

\* a recurring timer fires (lines 630-634): the callback requests a fixed
\* URL and logs the outcome, whatever it is
KeepAlivePing ==
  /\ timers > 0
  /\ UNCHANGED vars

\* ---- GET /api/points/:username of src/server.js (lines 92-120)

PointsStart(r, u) ==
  /\ clients.server = ServerJs
  /\ Begin(r, [IdleReq EXCEPT !.kind = "points", !.pc = "pointsFetch", !.user = u])
  /\ UNCHANGED <<store, github, clients, store0, timers, calc>>

\* points (src/server.js line 102)
PointsScore(repoCount, commitCount) == repoCount * 5 + commitCount * 2

\* the object handed to set (src/server.js lines 106-111)
PointsPayload(repoCount, commitCount, t) ==
  [repoCount |-> repoCount, commitCount |-> commitCount,
   points |-> PointsScore(repoCount, commitCount), lastUpdated |-> t]

\* Promise.all settles (src/server.js lines 95-102): both responses are
\* there, the listing's first page and the feed with pushes PushEvents, or
\* one of the requests failed; set is called
PointsFetched(r, ok, pushes) ==
  LET q == req[r]
      repoCount == Len(PageOf(ReposOf(github, q.user), 1))
  IN
  /\ q.pc = "pointsFetch"
  /\ req' = [req EXCEPT ![r] =
       IF ok THEN [q EXCEPT !.pc = "pointsSet",
                            !.payload = PointsPayload(repoCount, pushes, Stamp(r))]
       ELSE Respond(q, 500, [error |-> "Request failed"])]
  /\ UNCHANGED <<store, github, clients, store0, timers, calc>>

\* the 200 body (src/server.js line 115)
PointsBody(q) ==
  [username |-> q.user, repoCount |-> q.payload.repoCount,
   commitCount |-> q.payload.commitCount, points |-> q.payload.points]

\* the write of set(..., {merge: true}) and the 200 response
PointsSet(r, ok) ==
  LET q == req[r] IN
  /\ q.pc = "pointsSet"
  /\ IF ok
       THEN /\ store' = SetMerge(store, q.user, q.payload)
            /\ req' = [req EXCEPT ![r] = Respond(q, 200, PointsBody(q))]
       ELSE /\ store' = store
            /\ req' = [req EXCEPT ![r] = Respond(q, 500, [error |-> "Firestore error"])]
  /\ UNCHANGED <<github, clients, store0, timers, calc>>

\* ---- GET /api/debug/user/:username of src/server.js (lines 190-210)

DebugStart(r, u) ==
  /\ clients.server = ServerJs
  /\ Begin(r, [IdleReq EXCEPT !.kind = "debug", !.pc = "debugGet", !.user = u])
  /\ UNCHANGED <<store, github, clients, store0, timers, calc>>

DebugMissingIs404(q) ==
  Respond(q, 404, [exists |-> FALSE, message |-> "User not found in database"])

\* the answer for a user without record (src/server.js lines 200-204):
\* res.json without a status, so 200
DebugMissing(q) ==
  Respond(q, 200, [exists |-> FALSE, message |-> "User not found in database"])

\* userDoc = await get(); the response
DebugGet(r, ok) ==
  LET q == req[r] IN
  /\ q.pc = "debugGet"
  /\ req' = [req EXCEPT ![r] =
       IF ~ok THEN Respond(q, 500, [error |-> "Firestore error"])
       ELSE IF Exists(store, q.user)
         THEN Respond(q, 200, [exists |-> TRUE, data |-> store[q.user]])
         ELSE DebugMissing(q)]
  /\ UNCHANGED <<store, github, clients, store0, timers, calc>>

\* ---- the scorers on their own

\* no input, and no score computed
NoCalc == [repoCount |-> 0, commitCount |-> 0, quick |-> 0, full |-> 0, did |-> {}]

\* line 637 on calc's inputs
ScoreQuick ==
  /\ "quick" \notin calc.did
  /\ calc' = [calc EXCEPT !.quick = QuickScore(calc.repoCount, calc.commitCount),
                          !.did = calc.did \cup {"quick"}]
  /\ UNCHANGED <<store, github, req, clients, store0, timers>>

\* line 508 on calc's inputs
ScoreFull ==
  /\ "full" \notin calc.did
  /\ calc' = [calc EXCEPT !.full = FullScore(calc.repoCount, calc.commitCount),
                          !.did = calc.did \cup {"full"}]
  /\ UNCHANGED <<store, github, req, clients, store0, timers>>

\* ---------------------------------------------------------- specification

\* A record as the program leaves it: u1 logged in, was scanned when the
\* account held one repository and no commit, and checked in three times.
SeedDoc ==
  LET a == SetDoc(<<>>, "u1", UserData("u1", "", 1, 0))
      b == SetMerge(a, "u1", ScanPayload(1, 0, 0))
      c == UpdateDoc(b, "u1", CheckinPayload(b["u1"], 0))
      d == UpdateDoc(c, "u1", CheckinPayload(c["u1"], 0))
      e == UpdateDoc(d, "u1", CheckinPayload(d["u1"], 0))
  IN e["u1"]

EmptyStore == [u \in {} |-> Null]

InitStores == {EmptyStore, [u \in {"u1"} |-> SeedDoc]}

\* The upstream accounts: g.repos repositories for u1, whose commit counts
\* run through 0..MaxCommits starting after g.offset.
Accounts(sizes, offsets) == [repos : sizes, offset : offsets]

InitOn(servers, accounts, total, inflight) ==
  /\ store \in InitStores
  /\ store0 = store
  /\ github \in accounts
  /\ req = [r \in Reqs |-> IdleReq]
  /\ clients \in [total : {total}, inflight : {inflight}, server : servers]
  /\ timers = 0
  /\ calc = NoCalc

\* the comprehensive server
InitWith(accounts, total, inflight) ==
  InitOn({Comprehensive}, accounts, total, inflight)

\* Concurrent clients; u1's account holds no repository, or perPage+1.
Init == InitWith(Accounts({0, PerPage + 1}, {0}), MaxReqs, MaxActive)

\* One request on accounts of 0, 1, perPage, perPage+1 and 3*perPage
\* repositories.
InitScan ==
  InitWith(Accounts({0, 1, PerPage, PerPage + 1, 3 * PerPage}, 0..MaxCommits),
           MaxScanReqs, 1)

\* Either server file deployed, with concurrent clients.
InitServers ==
  InitOn({Comprehensive, ServerJs}, Accounts({0, 1, PerPage + 1}, {0}),
         MaxApiReqs, MaxApiReqs)

\* The scorers' inputs; no request is sent.
InitScore ==
  /\ store = EmptyStore
  /\ store0 = store
  /\ github \in Accounts({0}, {0})
  /\ req = [r \in Reqs |-> IdleReq]
  /\ clients = [total |-> 0, inflight |-> 0, server |-> Comprehensive]
  /\ timers = 0
  /\ calc \in [repoCount : 0..MaxScoreRepos, commitCount : 0..MaxScoreCommits,
               quick : {0}, full : {0}, did : {{}}]

\* the comprehensive server's handlers
Next ==
  \/ \E r \in Reqs, u \in Users, dn \in DisplayNames, tok \in Tokens :
       LoginStart(r, u, dn, tok)
  \/ \E r \in Reqs, ok \in BOOLEAN : LoginGet(r, ok)
  \/ \E r \in Reqs, ok \in BOOLEAN : LoginSet(r, ok)
  \/ \E r \in Reqs, u \in Users : CheckinStart(r, u)
  \/ \E r \in Reqs, ok \in BOOLEAN : CheckinGet(r, ok)
  \/ \E r \in Reqs, ok \in BOOLEAN : CheckinUpdate(r, ok)
  \/ \E r \in Reqs, u \in Users : ScanStart(r, u)
  \/ \E r \in Reqs, ok \in BOOLEAN : ScanGet(r, ok)
  \/ \E r \in Reqs, ok \in BOOLEAN : ReposResponse(r, ok)
  \/ \E r \in Reqs : ReposDelay(r)
  \/ \E r \in Reqs, status \in {200} \cup FaultStatuses : CommitsResponse(r, status)
  \/ \E r \in Reqs : CommitsDelay(r)
  \/ \E r \in Reqs : RepoDelay(r)
  \/ \E r \in Reqs, ok \in BOOLEAN : ScanSet(r, ok)
  \/ \E r \in Reqs : LeaderboardStart(r)
  \/ \E r \in Reqs, ok \in BOOLEAN : LeaderboardGet(r, ok)
  \/ \E r \in Reqs, u \in Users : QuickStart(r, u)
  \/ \E r \in Reqs, ok \in BOOLEAN : QuickRepos(r, ok)
  \/ \E r \in Reqs, ok \in BOOLEAN, pushes \in 0..MaxPushes :
       QuickEvents(r, ok, pushes)
  \/ KeepAlivePing

\* the handlers of either server file
NextServers ==
  \/ Next
  \/ \E r \in Reqs, u \in Users : PointsStart(r, u)
  \/ \E r \in Reqs, ok \in BOOLEAN, pushes \in 0..MaxPushes :
       PointsFetched(r, ok, pushes)
  \/ \E r \in Reqs, ok \in BOOLEAN : PointsSet(r, ok)
  \/ \E r \in Reqs, u \in Users : DebugStart(r, u)
  \/ \E r \in Reqs, ok \in BOOLEAN : DebugGet(r, ok)

NextScore == ScoreQuick \/ ScoreFull

Spec == Init /\ [][Next]_vars

SpecScan == InitScan /\ [][Next]_vars

\* Every handler that has a step to take takes it in the end.
SpecServers == InitServers /\ [][NextServers]_vars /\ WF_vars(NextServers)

SpecScanFair == InitScan /\ [][Next]_vars /\ WF_vars(Next)

SpecScore == InitScore /\ [][NextScore]_vars

\* ------------------------------------------------------------------ claims

\* The steps that write the store, as seen on a pair of states.
ScanWrote(r) ==
  req[r].pc = "scanSet" /\ req'[r].pc = "done" /\ req'[r].status = 200
LoginWrote(r) ==
  req[r].pc = "loginSet" /\ req'[r].pc = "done" /\ req'[r].status = 302
CheckinWrote(r) ==
  req[r].pc = "checkinUpdate" /\ req'[r].pc = "done" /\ req'[r].status = 200

ScanFields == {"repoCount", "commitCount", "points", "lastUpdated", "lastFullScan"}
CounterFields == {"points", "repoCount", "commitCount", "dailyCheckIns"}

\* C1: when a scan writes a record that exists, every field of the record
\* other than repoCount, commitCount, points, lastUpdated and lastFullScan
\* is still there after the write, with the value it had before it.
C1_ScanKeepsOtherFields ==
  [][\A r \in Reqs :
       ScanWrote(r) /\ Exists(store, req[r].user) =>
         \A f \in DOMAIN store[req[r].user] \ ScanFields :
           /\ f \in DOMAIN store'[req[r].user]
           /\ store'[req[r].user][f] = store[req[r].user][f]]_vars

\* A scan has answered 200 for the seeded u1, whose record still shows the
\* three check-ins and the token, and the scan's stamp.
C1_Witness ==
  \E r \in Reqs :
    /\ req[r].kind = "scan" /\ req[r].pc = "done" /\ req[r].status = 200
    /\ req[r].user \in DOMAIN store0
    /\ store[req[r].user].lastFullScan = Stamp(r)
    /\ store[req[r].user].dailyCheckIns = 3
    /\ store[req[r].user].accessToken = 1

\* C2: a login that finds a record leaves its points, dailyCheckIns,
\* repoCount and commitCount as they were; points changes only by a scan's
\* write or by a check-in's +1, and goes down only by a scan's write.
C2_LoginKeepsCounters ==
  [][/\ \A r \in Reqs :
          LoginWrote(r) /\ Exists(store, req[r].user) =>
            \A f \in CounterFields :
              OrZero(store'[req[r].user], f) = OrZero(store[req[r].user], f)
     /\ \A u \in DOMAIN store :
          LET before == OrZero(store[u], "points")
              after == OrZero(store'[u], "points")
          IN /\ after # before =>
                  \E r \in Reqs :
                    /\ req[r].user = u
                    /\ ScanWrote(r) \/ (CheckinWrote(r) /\ after = before + 1)
             /\ after < before =>
                  \E r \in Reqs : req[r].user = u /\ ScanWrote(r)]_vars

\* The requests for u that have arrived.
For(u) == {r \in Reqs : req[r].pc # "idle" /\ req[r].user = u}

AnsweredCheckin(r) ==
  req[r].kind = "checkin" /\ req[r].pc = "done" /\ req[r].status = 200

\* C3: when k >= 2 check-ins, and nothing else, were sent for a user that
\* had a record, in any interleaving, and all have answered 200, the
\* record's points and dailyCheckIns are each k more than at the start.
C3_ConcurrentCheckinsAllCount ==
  \A u \in DOMAIN store0 :
    (/\ Cardinality(For(u)) >= 2
     /\ \A r \in For(u) : AnsweredCheckin(r))
    => /\ store[u].points = store0[u].points + Cardinality(For(u))
       /\ store[u].dailyCheckIns = store0[u].dailyCheckIns + Cardinality(For(u))

\* C4: the points a check-in writes are the points persisted at the moment
\* of the write, plus one.
C4_CheckinWritesFromLatest ==
  [][\A r \in Reqs :
       CheckinWrote(r) =>
         store'[req[r].user].points = OrZero(store[req[r].user], "points") + 1]_vars

\* C5: a check-in that ran with no other request in flight raises points and
\* dailyCheckIns by one each and answers with the points it persisted; so
\* when n check-ins, and nothing else, ran one after another for a user that
\* had a record, its points and dailyCheckIns are each n more than at the
\* start.
C5_SequentialCheckins ==
  /\ [][\A r \in Reqs :
          CheckinWrote(r) /\ ~req[r].overlap =>
            LET u == req[r].user IN
            /\ store'[u].points = OrZero(store[u], "points") + 1
            /\ store'[u].dailyCheckIns = OrZero(store[u], "dailyCheckIns") + 1
            /\ req'[r].body.newPoints = store'[u].points]_vars
  /\ [](\A u \in DOMAIN store0 :
          (\A r \in For(u) : AnsweredCheckin(r) /\ ~req[r].overlap)
          => /\ store[u].points = store0[u].points + Cardinality(For(u))
             /\ store[u].dailyCheckIns
                  = store0[u].dailyCheckIns + Cardinality(For(u)))

\* Two check-ins ran one after the other for the seeded u1 (13 points, 3
\* check-ins): 15 points, 5 check-ins, the last answer says 15.
C5_Witness ==
  /\ "u1" \in DOMAIN store0
  /\ Cardinality(For("u1")) = 2
  /\ \A r \in For("u1") : AnsweredCheckin(r) /\ ~req[r].overlap
  /\ \E r \in For("u1") : req[r].body.newPoints = 15
  /\ store["u1"].points = 15 /\ store["u1"].dailyCheckIns = 5

\* C6: the step of a check-in whose read finds no record ends the request
\* with 404 and success:false (or with the 500 of a failed store read) and
\* leaves the store as it is: nothing is written, no record is created.
C6_CheckinMissingUser ==
  [][\A r \in Reqs :
       req[r].pc = "checkinGet" /\ req'[r].pc # "checkinGet"
       /\ ~Exists(store, req[r].user) =>
         /\ store' = store
         /\ req'[r].pc = "done"
         /\ \/ /\ req'[r].status = 404
               /\ req'[r].body = [success |-> FALSE, error |-> "User not found"]
            \/ /\ req'[r].status = 500
               /\ req'[r].body = [success |-> FALSE, error |-> "Firestore error"]]_vars

\* A check-in was answered 404 and its user has no record.
C6_Witness ==
  \E r \in Reqs :
    /\ req[r].kind = "checkin" /\ req[r].pc = "done" /\ req[r].status = 404
    /\ req[r].body.success = FALSE
    /\ ~Exists(store, req[r].user)

\* C7 as stated: every record holds points, repoCount, commitCount and
\* dailyCheckIns.
C7_AllCountersPresent ==
  \A u \in DOMAIN store : CounterFields \subseteq DOMAIN store[u]

\* C7 as amended: every record holds points, repoCount and commitCount, and
\* it holds dailyCheckIns exactly when a login or a check-in has written it.
C7_CountersAmended ==
  \A u \in DOMAIN store :
    /\ {"points", "repoCount", "commitCount"} \subseteq DOMAIN store[u]
    /\ "dailyCheckIns" \in DOMAIN store[u]
         <=> ("lastLogin" \in DOMAIN store[u] \/ "lastCheckIn" \in DOMAIN store[u])

\* A record a scan created is checked in on: it has its counters, and no
\* login.
C7_Witness ==
  \E u \in DOMAIN store :
    /\ "lastLogin" \notin DOMAIN store[u]
    /\ "lastFullScan" \in DOMAIN store[u]
    /\ "lastCheckIn" \in DOMAIN store[u]
    /\ store[u].dailyCheckIns = 1

RECURSIVE SumCommits(_, _)
\* The commits upstream in the repositories of the set S.
SumCommits(g, S) ==
  IF S = {} THEN 0
  ELSE LET i == CHOOSE x \in S : TRUE
       IN CommitsOf(g, i) + SumCommits(g, S \ {i})

\* The repositories upstream for u, as a set.
RepoSet(g, u) == {ReposOf(g, u)[k] : k \in 1..Len(ReposOf(g, u))}

\* C8: a failed commit listing (409, 403, 404, any other error) never ends
\* the request: getCommitsForRepository returns 0 and the loop goes on.  The
\* scan then writes, and answers 200 with, repoCount = the number of
\* repositories listed and commitCount = the commits of the repositories
\* whose listing did not fail (500 only when the store write itself fails).
C8_CommitFaultTolerance ==
  /\ [][\A r \in Reqs :
          /\ (\E st \in FaultStatuses : CommitsResponse(r, st)) =>
               /\ req'[r].pc = "repoDelay"
               /\ req'[r].totalCommits = req[r].totalCommits
               /\ req'[r].processedRepos = req[r].processedRepos + 1
          /\ (req[r].pc = "scanSet" /\ req'[r].pc = "done") =>
               \/ /\ req'[r].status = 200
                  /\ req'[r].body.repoCount = req[r].payload.repoCount
                  /\ req'[r].body.commitCount = req[r].payload.commitCount
                  /\ store'[req[r].user].repoCount = req[r].payload.repoCount
                  /\ store'[req[r].user].commitCount = req[r].payload.commitCount
               \/ /\ req'[r].status = 500
                  /\ req'[r].body = [error |-> "Firestore error"]
                  /\ store' = store]_vars
  /\ [](\A r \in Reqs :
          req[r].pc = "scanSet" =>
            /\ req[r].payload.repoCount = Len(ReposOf(github, req[r].user))
            /\ req[r].payload.commitCount
                 = SumCommits(github, RepoSet(github, req[r].user) \ req[r].faulted))

\* A scan of 3*perPage repositories is about to write: some listings
\* failed, one of them after a first page, some did not.
C8_Witness ==
  \E r \in Reqs :
    /\ req[r].pc = "scanSet"
    /\ req[r].payload.repoCount = 3 * PerPage
    /\ req[r].payload.commitCount > 0
    /\ \E i \in req[r].faulted : CommitsOf(github, i) > PerPage
    /\ \E i \in req[r].faulted : CommitsOf(github, i) = 0
    /\ req[r].faulted # RepoSet(github, req[r].user)

\* Where a scan is once getAllRepositories has returned.
AfterListing == {"commitsFetch", "commitsDelay", "repoDelay", "scanSet"}

\* C9: over a listing of N repositories in pages of perPage, N in {0, 1,
\* perPage, perPage+1, 3*perPage}, getAllRepositories returns exactly the
\* listing, in its order.
C9_PaginationComplete ==
  \A r \in Reqs :
    req[r].kind = "scan" /\ req[r].pc \in AfterListing =>
      req[r].allRepos = ReposOf(github, req[r].user)

\* getAllRepositories has returned the 3*perPage repositories of u1.
C9_Witness ==
  \E r \in Reqs :
    /\ req[r].kind = "scan" /\ req[r].pc \in AfterListing
    /\ Len(req[r].allRepos) = 3 * PerPage
    /\ req[r].allRepos = ReposOf(github, "u1")

\* C10: when a page request of the repository listing fails, the request is
\* answered 500 with an error body and the store is left as it is; and no
\* step of a scan before its final write changes the store.
C10_ListingFailure ==
  [][\A r \in Reqs :
       /\ ReposResponse(r, FALSE) =>
            /\ req'[r].pc = "done"
            /\ req'[r].status = 500
            /\ "error" \in DOMAIN req'[r].body
            /\ store' = store
       /\ (req[r].kind = "scan" /\ req[r].pc # "scanSet"
           /\ req'[r].pc # req[r].pc) => store' = store]_vars

\* The listing of a scan failed: the scan was answered 500 and u1, who had
\* no record, has none.
C10_Witness ==
  \E r \in Reqs :
    /\ req[r].kind = "scan" /\ req[r].pc = "done" /\ req[r].status = 500
    /\ req[r].body = [error |-> "Request failed"]
    /\ req[r].user = "u1" /\ github.repos = 3 * PerPage
    /\ ~Exists(store, "u1")

\* The write of GET /api/points of src/server.js, on a pair of states.
PointsWrote(r) ==
  req[r].pc = "pointsSet" /\ req'[r].pc = "done" /\ req'[r].status = 200

\* the counts and the points of a record or a body d follow the formula
\* repoCount*a + commitCount*b
Scored(d, a, b) == d.points = d.repoCount * a + d.commitCount * b

\* the response that request r gets in this step and the record it writes
\* hold the same counts and points
SameCounts(r) ==
  \A f \in {"repoCount", "commitCount", "points"} :
    req'[r].body[f] = store'[req[r].user][f]

\* C11: every successful GET /api/points/:username, of either server file,
\* returns and persists points = repoCount*10 + commitCount*3 for the
\* repoCount and commitCount it returns and persists.
C11_FullFormula ==
  [][\A r \in Reqs :
       (ScanWrote(r) \/ PointsWrote(r)) =>
          /\ SameCounts(r)
          /\ Scored(req'[r].body, 10, 3)
          /\ Scored(store'[req[r].user], 10, 3)]_vars

\* C11 as amended: the comprehensive server's GET /api/points/:username
\* returns and persists points = repoCount*10 + commitCount*3, and the one
\* of src/server.js returns and persists points = repoCount*5 +
\* commitCount*2, each for the counts it returns and persists.
C11_FormulaByServer ==
  [][\A r \in Reqs :
       /\ ScanWrote(r) =>
            /\ SameCounts(r)
            /\ Scored(req'[r].body, 10, 3)
            /\ Scored(store'[req[r].user], 10, 3)
       /\ PointsWrote(r) =>
            /\ SameCounts(r)
            /\ Scored(req'[r].body, 5, 2)
            /\ Scored(store'[req[r].user], 5, 2)]_vars

\* A scan of u1 has answered with repositories and commits, and the record
\* holds the points of the formula.
C11_Witness ==
  \E r \in Reqs :
    /\ req[r].kind = "scan" /\ req[r].pc = "done" /\ req[r].status = 200
    /\ req[r].body.repoCount = PerPage + 1 /\ req[r].body.commitCount > 0
    /\ Exists(store, "u1")
    /\ store["u1"].points = req[r].body.points
    /\ store["u1"].points > 10 * (PerPage + 1)

\* C12: a quick score computed from (repoCount, commitCount) is
\* repoCount*5 + commitCount*2 and a full score is repoCount*10 +
\* commitCount*3, for every repoCount in 0..MaxScoreRepos and commitCount in
\* 0..MaxScoreCommits; quick(8,0) = 40 and full(8,12) = 116.
C12_ScorerFormulas ==
  /\ "quick" \in calc.did =>
       /\ calc.quick = calc.repoCount * 5 + calc.commitCount * 2
       /\ (calc.repoCount = 8 /\ calc.commitCount = 0) => calc.quick = 40
  /\ "full" \in calc.did =>
       /\ calc.full = calc.repoCount * 10 + calc.commitCount * 3
       /\ (calc.repoCount = 8 /\ calc.commitCount = 12) => calc.full = 116

\* Both scores of (8, 12) have been computed.
C12_Witness ==
  /\ calc.did = {"quick", "full"}
  /\ calc.repoCount = 8 /\ calc.commitCount = 12
  /\ calc.full = 116 /\ calc.quick = 64

\* C13: no step of a GET /api/quick-scan/:username request, whether the
\* request ends in a 200 or in a 500, changes the store: every record is as
\* it was and no record is created.
C13_QuickScanKeepsStore ==
  [][\A r \in Reqs :
       (req'[r].kind = "quick" /\ req'[r].pc # req[r].pc) => store' = store]_vars

\* A quick scan of u2, who has no record, has succeeded and another has
\* failed; the store is as it was at start-up, with u1's record in it.
C13_Witness ==
  \E r, x \in Reqs :
    /\ req[r].kind = "quick" /\ req[r].pc = "done" /\ req[r].status = 200
    /\ req[r].user = "u2" /\ ~Exists(store, "u2")
    /\ req[x].kind = "quick" /\ req[x].pc = "done" /\ req[x].status = 500
    /\ store = store0 /\ Exists(store, "u1")

\* C14: a successful scan of a user without record creates the record, and
\* its fields are exactly repoCount, commitCount, points, lastUpdated and
\* lastFullScan, with the values of the scan.
C14_ScanCreatesExactFields ==
  [][\A r \in Reqs :
       (ScanWrote(r) /\ ~Exists(store, req[r].user)) =>
          /\ Exists(store', req[r].user)
          /\ DOMAIN store'[req[r].user] = ScanFields
          /\ store'[req[r].user] = req[r].payload
          /\ \A f \in {"repoCount", "commitCount", "points"} :
               store'[req[r].user][f] = req'[r].body[f]]_vars

\* A scan of u1 has succeeded on an empty store and u1's record is there,
\* holding repositories.
C14_Witness ==
  \E r \in Reqs :
    /\ req[r].kind = "scan" /\ req[r].pc = "done" /\ req[r].status = 200
    /\ store0 = EmptyStore
    /\ Exists(store, req[r].user)
    /\ store[req[r].user].repoCount = 3 * PerPage

\* A leaderboard request answered with its array.
BoardAnswered(q) == q.kind = "board" /\ q.pc = "done" /\ q.status = 200

\* The step in which request r gets the array.
BoardAnswers(r) == req[r].pc = "boardGet" /\ BoardAnswered(req'[r])

\* C15: the array a GET /api/leaderboard returns is non-increasing in
\* points from its first to its last entry.
C15_LeaderboardOrdered ==
  \A r \in Reqs :
    BoardAnswered(req[r]) =>
      \A i, j \in DOMAIN req[r].body :
        i < j => req[r].body[i].points >= req[r].body[j].points

\* A leaderboard of two entries with different points has been returned.
C15_Witness ==
  \E r \in Reqs :
    /\ BoardAnswered(req[r])
    /\ Len(req[r].body) = 2
    /\ req[r].body[1].points > req[r].body[2].points

\* C16: the array a GET /api/leaderboard returns holds exactly one entry
\* for every record of the store; and every record of the store has a
\* points field.
C16_LeaderboardComplete ==
  /\ [][\A r \in Reqs :
          BoardAnswers(r) =>
            /\ {req'[r].body[i].id : i \in DOMAIN req'[r].body} = DOMAIN store
            /\ Len(req'[r].body) = Cardinality(DOMAIN store)]_vars
  /\ [](\A u \in DOMAIN store : "points" \in DOMAIN store[u])

\* A leaderboard of two entries has been returned, one of them for a
\* record that a scan created (it has no username).
C16_Witness ==
  \E r \in Reqs :
    /\ BoardAnswered(req[r])
    /\ Len(req[r].body) = 2
    /\ \E i \in DOMAIN req[r].body : "username" \notin DOMAIN req[r].body[i]

\* the store s with the access token of every record that has one replaced
\* by tk's
Retoken(s, tk) ==
  [u \in DOMAIN s |->
     IF "accessToken" \in DOMAIN s[u] THEN [s[u] EXCEPT !.accessToken = tk[u]]
     ELSE s[u]]

\* the arrays GET /api/leaderboard may return on store s
Responses(server, s) == {Leaderboard(server, s, o) : o \in Snapshots(s)}

\* C17: no entry of an array that GET /api/leaderboard returns has an
\* accessToken field; and the arrays it may return on the store are those it
\* may return on any store that differs from it in access token values only.
C17_LeaderboardHidesToken ==
  /\ \A r \in Reqs :
       BoardAnswered(req[r]) =>
         \A i \in DOMAIN req[r].body : "accessToken" \notin DOMAIN req[r].body[i]
  /\ \A tk \in [DOMAIN store -> 0..(MaxTokens + 1)] :
       Responses(clients.server, Retoken(store, tk))
         = Responses(clients.server, store)

\* A leaderboard has been returned with an entry for a record that holds an
\* access token.
C17_Witness ==
  \E r \in Reqs :
    /\ BoardAnswered(req[r])
    /\ \E i \in DOMAIN req[r].body :
         /\ Exists(store, req[r].body[i].id)
         /\ StoredToken(store, req[r].body[i].id) # 0
         /\ req[r].body[i].username = req[r].body[i].id

\* C18: at most one recurring timer is armed in the process, and no step
\* of a request handler arms one.
C18_SingleKeepAliveTimer ==
  /\ [](timers <= 1)
  /\ [][timers' = timers]_vars

\* A request that has been answered, and one answered with a failure status.
Answered(q) == q.pc = "done"
Failed(q) == Answered(q) /\ q.status >= 400

LastPage(n, page) == PageSize(n, page) = 0 \/ ~HasNext(n, page)

InRepos == {"reposFetch", "reposDelay"}
InCommits == {"commitsFetch", "commitsDelay"}

\* C20: when the answer to a page request of getAllRepositories or of
\* getCommitsForRepository arrives and the page is empty or carries no
\* next link, the function requests no further page; and each function,
\* once entered, returns or throws in the end.
C20_PaginatorTerminates ==
  /\ [][\A r \in Reqs :
          /\ (req[r].pc = "reposFetch"
              /\ (req'[r].pc # "reposFetch" \/ req'[r].page # req[r].page)
              /\ LastPage(Len(ReposOf(github, req[r].user)), req[r].page)) =>
                req'[r].pc \notin InRepos
          /\ (req[r].pc = "commitsFetch"
              /\ (req'[r].pc # "commitsFetch" \/ req'[r].page # req[r].page)
              /\ LastPage(CommitsOf(github, req[r].allRepos[req[r].idx]),
                          req[r].page)) =>
                req'[r].pc \notin InCommits]_vars
  /\ \A r \in Reqs : (req[r].pc \in InRepos) ~> (req[r].pc \notin InRepos)
  /\ \A r \in Reqs : (req[r].pc \in InCommits) ~> (req[r].pc \notin InCommits)

\* getAllRepositories has returned after three full pages and every
\* repository's commits have been listed, some over two pages.
C20_Witness ==
  \E r \in Reqs :
    /\ req[r].pc = "scanSet"
    /\ Len(req[r].allRepos) = 3 * PerPage
    /\ req[r].faulted = {}
    /\ req[r].totalCommits > 3 * PerPage

\* The step in which a scan enters getCommitsForRepository and requests the
\* first page of a repository's commit listing.
StartsCommits(r) ==
  req[r].pc \notin InCommits /\ req'[r].pc = "commitsFetch" /\ req'[r].page = 1

\* The fetches of a scan go through the listing in its order, one at a
\* time: the fetch for the repository at idx starts when those of the idx-1
\* repositories before it have returned.
InListingOrder(r) ==
  /\ req'[r].processedRepos = req'[r].idx - 1
  /\ req'[r].allRepos[req'[r].idx] = ReposOf(github, req[r].user)[req'[r].idx]
  /\ req'[r].idx = IF req[r].pc = "reposFetch" THEN 1 ELSE req[r].idx + 1

\* C21: the commit fetches of a scan are sequential, in listing order, and
\* every commit fetch, the first one included, starts when a throttle delay
\* that followed the previous external call has elapsed.
C21_ThrottleBeforeEveryFetch ==
  [][\A r \in Reqs :
       StartsCommits(r) => (InListingOrder(r) /\ req[r].pc = "repoDelay")]_vars

\* C21 as amended: the commit fetches of a scan are sequential, in listing
\* order; the first one starts in the step in which the last page of the
\* repository listing arrives, with no delay, every later one when the
\* 200 ms delay that followed the previous fetch has elapsed; and that delay
\* follows every commit fetch, the last one included.
C21_ThrottleAfterEveryFetch ==
  [][\A r \in Reqs :
       /\ StartsCommits(r) =>
            /\ InListingOrder(r)
            /\ req[r].pc = IF req'[r].idx = 1 THEN "reposFetch" ELSE "repoDelay"
       /\ (req[r].pc = "commitsFetch" /\ req'[r].pc \notin InCommits) =>
            req'[r].pc = "repoDelay"
       /\ (req[r].pc = "repoDelay" /\ req'[r].pc # "repoDelay") =>
            req'[r].pc \in {"commitsFetch", "scanSet"}]_vars

\* A scan has fetched the commits of 3*perPage repositories, one after the
\* other, and is about to write.
C21_Witness ==
  \E r \in Reqs :
    /\ req[r].pc = "scanSet"
    /\ req[r].processedRepos = 3 * PerPage
    /\ req[r].idx = 3 * PerPage + 1

\* C22: in getAllRepositories and in getCommitsForRepository, page p+1 is
\* requested when the 100 ms wait that followed page p has elapsed, the wait
\* starts in the step in which page p arrives, and no wait follows the last
\* page.
C22_ThrottleBetweenPages ==
  [][\A r \in Reqs :
       /\ (req'[r].pc = "reposFetch" /\ req'[r].page > 1
           /\ (req[r].pc # "reposFetch" \/ req'[r].page # req[r].page)) =>
             (req[r].pc = "reposDelay" /\ req'[r].page = req[r].page)
       /\ (req[r].pc = "reposFetch" /\ req'[r].pc \in InRepos) =>
             /\ req'[r].pc = "reposDelay"
             /\ req'[r].page = req[r].page + 1
             /\ ~LastPage(Len(ReposOf(github, req[r].user)), req[r].page)
       /\ (req'[r].pc = "commitsFetch" /\ req'[r].page > 1
           /\ (req[r].pc # "commitsFetch" \/ req'[r].page # req[r].page)) =>
             (req[r].pc = "commitsDelay" /\ req'[r].page = req[r].page)
       /\ (req[r].pc = "commitsFetch" /\ req'[r].pc \in InCommits) =>
             /\ req'[r].pc = "commitsDelay"
             /\ req'[r].page = req[r].page + 1
             /\ ~LastPage(CommitsOf(github, req[r].allRepos[req[r].idx]),
                          req[r].page)]_vars

\* A scan has listed 3*perPage repositories over three pages and is past
\* the second page of a repository's commits.
C22_Witness ==
  \E r \in Reqs :
    /\ req[r].pc = "commitsFetch" /\ req[r].page = 2
    /\ Len(req[r].allRepos) = 3 * PerPage
    /\ req[r].allCommits = PerPage

\* C23: within a scan, the pages of a listing are requested in the order
\* 1, 2, 3, ..., each once: the page after p is requested once, after the
\* wait that follows p's arrival; the repository listing is entered once and
\* the commit listing of each repository once, in the order of the listing;
\* and a request that failed ends its listing: the scan after a failed
\* page of the repository listing, the repository's count after a failed
\* page of its commits, with no request for that repository after it.
C23_NoRetry ==
  [][\A r \in Reqs :
       /\ (req'[r].pc = "reposFetch" /\ req[r].pc \notin InRepos) =>
            (req[r].pc = "scanGet" /\ req'[r].page = 1)
       /\ (req[r].pc = "reposFetch" /\ req'[r].pc = "reposFetch") =>
            req'[r].page = req[r].page
       /\ (req[r].pc = "reposFetch" /\ req'[r].pc = "reposDelay") =>
            req'[r].page = req[r].page + 1
       /\ req[r].pc = "reposDelay" =>
            (req'[r].pc \in InRepos /\ req'[r].page = req[r].page)
       /\ StartsCommits(r) =>
            /\ req'[r].idx = IF req[r].pc = "reposFetch" THEN 1 ELSE req[r].idx + 1
            /\ req'[r].allRepos = req[r].allRepos \/ req[r].pc = "reposFetch"
            /\ req'[r].allRepos[req'[r].idx] \notin req'[r].faulted
       /\ (req[r].pc = "commitsFetch" /\ req'[r].pc = "commitsFetch") =>
            (req'[r].page = req[r].page /\ req'[r].idx = req[r].idx)
       /\ (req[r].pc = "commitsFetch" /\ req'[r].pc = "commitsDelay") =>
            (req'[r].page = req[r].page + 1 /\ req'[r].idx = req[r].idx)
       /\ req[r].pc = "commitsDelay" =>
            /\ req'[r].pc \in InCommits
            /\ req'[r].page = req[r].page /\ req'[r].idx = req[r].idx
       /\ (req[r].pc = "commitsFetch" /\ req'[r].faulted # req[r].faulted) =>
            /\ req'[r].pc = "repoDelay"
            /\ req'[r].faulted = req[r].faulted \cup {req[r].allRepos[req[r].idx]}
       /\ ReposResponse(r, FALSE) => req'[r].pc = "done"]_vars

\* A scan of 3*perPage repositories is about to write: two commit listings
\* failed, one of them on its second page, and the scan went on.
C23_Witness ==
  \E r \in Reqs :
    /\ req[r].pc = "scanSet"
    /\ Len(req[r].allRepos) = 3 * PerPage
    /\ Cardinality(req[r].faulted) = 2
    /\ req[r].processedRepos = 3 * PerPage
    /\ req[r].totalCommits > 0

\* C24: getCommitsForRepository returns the number of commits of the
\* repository's whole listing, or 0 when a page request failed, whatever
\* the pages before it held: the scan's total grows by one or the other.
C24_CompleteOrZero ==
  [][\A r \in Reqs :
       (req[r].pc = "commitsFetch" /\ req'[r].pc = "repoDelay") =>
          LET repo == req[r].allRepos[req[r].idx]
              count == req'[r].totalCommits - req[r].totalCommits
          IN IF repo \in req'[r].faulted
               THEN count = 0
               ELSE count = CommitsOf(github, repo)]_vars

\* The second page of the commits of the first repository failed after a
\* first page of perPage commits: the total is still 0.
C24_Witness ==
  \E r \in Reqs :
    /\ req[r].pc = "repoDelay" /\ req[r].idx = 1
    /\ req[r].page = 2 /\ req[r].allCommits = PerPage
    /\ req[r].allRepos[1] \in req[r].faulted
    /\ req[r].totalCommits = 0

\* C25: the only step of a scan that changes the store is its last one,
\* taken when the commit count of every listed repository has been
\* obtained; it changes the record of the scanned user only, the response
\* holds the repoCount, commitCount and points it wrote, and a scan that
\* has answered takes no further step.
C25_SingleWrite ==
  [][\A r \in Reqs :
       /\ (req'[r].kind = "scan" /\ req'[r].pc # req[r].pc /\ store' # store) =>
            /\ ScanWrote(r)
            /\ req[r].allRepos = ReposOf(github, req[r].user)
            /\ req[r].processedRepos = Len(req[r].allRepos)
            /\ req[r].idx = Len(req[r].allRepos) + 1
            /\ \A v \in DOMAIN store : v # req[r].user => store'[v] = store[v]
            /\ DOMAIN store' = DOMAIN store \cup {req[r].user}
            /\ SameCounts(r)
       /\ ScanWrote(r) => SameCounts(r)
       /\ (req[r].kind = "scan" /\ req[r].pc = "done") => req'[r] = req[r]]_vars

\* A scan of 3*perPage repositories with commits has answered and u1's
\* record, which was there before, holds the counts of the response.
C25_Witness ==
  \E r \in Reqs :
    /\ req[r].kind = "scan" /\ req[r].pc = "done" /\ req[r].status = 200
    /\ req[r].body.repoCount = 3 * PerPage /\ req[r].body.commitCount > 0
    /\ Exists(store0, "u1") /\ store # store0
    /\ store["u1"].commitCount = req[r].body.commitCount
    /\ store["u1"].points = req[r].body.points

\* the fields of a record that a login writes and a scan does not
ProfileFields ==
  {"id", "username", "displayName", "avatar_url", "accessToken", "lastLogin"}

\* C26: when one login and one scan, the only requests for a username that
\* had no record, have both succeeded, the record holds the profile fields
\* of the login and the lastUpdated and lastFullScan of the scan.
C26_LoginAndScanKeepFields ==
  \A u \in Users : \A r, x \in Reqs :
    ( /\ ~Exists(store0, u)
      /\ req[r].kind = "login" /\ req[r].user = u
      /\ req[r].pc = "done" /\ req[r].status = 302
      /\ req[x].kind = "scan" /\ req[x].user = u
      /\ req[x].pc = "done" /\ req[x].status = 200
      /\ For(u) = {r, x} ) =>
        /\ Exists(store, u)
        /\ ProfileFields \cup {"lastUpdated", "lastFullScan"} \subseteq DOMAIN store[u]

====
